---------------------------- MODULE Spec2Model ----------------------------
(***************************************************************************)
(* Model of the parsm harness: the conformance runner                      *)
(* (src/bin/integration_test.py) and the benchmark executor                *)
(* (src/bin/microbenchmark.py).  The tool under test is an opaque child    *)
(* process: every invocation's outcome is an input chosen by the           *)
(* environment.                                                            *)
(***************************************************************************)
EXTENDS Integers, Sequences, FiniteSets, TLC

(***************************************************************************)
(* Bounds of the model.                                                    *)
(***************************************************************************)
NumCategories == 2
CasesPerCategory == 2
MaxExit == 2
NumBench == 2
MaxIter == 2
MaxTime == 2

VARIABLES
    \* ---- conformance run (integration_test.py) ----
    tpc,            \* position of main(): "main", "run", "exit"
    cargo_toml,     \* os.path.exists("Cargo.toml")
    release_exists, \* Path("target/release/parsm").exists()
    debug_exists,   \* Path("target/debug/parsm").exists()
    parsm_binary,   \* TestRunner.parsm_binary ("" before construction)
    passed,         \* TestRunner.passed
    failed,         \* TestRunner.failed
    cat,            \* index of the category run_category is iterating
    idx,            \* index of the next test of that category
    texit,          \* exit status of the process, -1 while running
    tlast,          \* the last run_test call: its case, outcome and effect
    tseen,          \* history of the run: what has happened so far
    \* ---- benchmark run (microbenchmark.py) ----
    bpc,            \* position of main(): "main", "idle" (between two
                    \* benchmark_operation calls), "loop", "export", "exit"
    binary_exists,  \* os.path.exists(parsm_binary)
    export_csv,     \* args.export_csv
    iterations_arg, \* args.iterations
    results,        \* ParmsBenchmark.results
    bnum,           \* index of the next benchmark of run_all_benchmarks
    cur,            \* locals of the current benchmark_operation call
    rlog,           \* outcomes of the repetitions of that call, in order
    returned,       \* <<r>> when the last call returned r, else <<>>
    completed,      \* number of benchmark_operation calls that returned
    temp_files,     \* temporary input files that exist on disk
    temp_created,   \* temporary input files the current call has created
    calls,          \* run_parsm calls the current call has made
    table,          \* what print_results has printed: <<>> or <<groups>>
    csv_rows,       \* data rows written by export_csv_results
    bexit,          \* return value of main(), -1 while running
    bseen,          \* the exception that ended the run, or "none"
    \* ---- a second conformance run over the same cases and exit codes ----
    passed2,        \* its TestRunner.passed
    failed2,        \* its TestRunner.failed
    texit2,         \* its exit status, -1 while running
    differed        \* whether the two runs have seen different output

tvars == <<tpc, cargo_toml, release_exists, debug_exists, parsm_binary,
           passed, failed, cat, idx, texit, tlast, tseen>>

bvars == <<bpc, binary_exists, export_csv, iterations_arg, results, bnum, cur, rlog, returned,
           completed, temp_files, temp_created, calls, table, csv_rows, bexit,
           bseen>>

wvars == <<passed2, failed2, texit2, differed>>

vars == <<tvars, bvars, wvars>>

-----------------------------------------------------------------------------
(***************************************************************************)
(* Conformance runner                                                      *)
(***************************************************************************)

\* TestCase: only should_pass takes part in the runner's logic.
TestCase == [should_pass : BOOLEAN]

Texts == {"", "x"}

\* What subprocess.run does for one case: it returns a CompletedProcess
\* (kind "exit"), raises TimeoutExpired (kind "timeout") or raises another
\* exception such as OSError at spawn (kind "exception").
TestOutcomes ==
    [kind : {"exit"}, returncode : 0..MaxExit, stdout : Texts, stderr : Texts]
    \cup [kind : {"timeout", "exception"}, returncode : {0},
          stdout : {""}, stderr : {""}]

\* Both TimeoutExpired and a spawn failure are subclasses of Exception.
RaisesException(o) == o.kind # "exit"

NoBinary == ""
ReleasePath == "target/release/parsm"
DebugPath == "target/debug/parsm"

\* _find_parsm_binary: release build, then debug build, then cargo build.
\* build_ok is the outcome of `cargo build --release` (check=True raises
\* CalledProcessError when it fails).
find_parsm_binary(release, debug, build_ok) ==
    IF release THEN [raised |-> FALSE, path |-> ReleasePath]
    ELSE IF debug THEN [raised |-> FALSE, path |-> DebugPath]
    ELSE IF build_ok THEN [raised |-> FALSE, path |-> ReleasePath]
    ELSE [raised |-> TRUE, path |-> NoBinary]

\* Lines printed for one case by run_test.
Stripped(s) == IF s = "" THEN 0 ELSE 1
PassLines(o) == 1 + Stripped(o.stdout)
FailLines(o) == 3 + Stripped(o.stdout) + Stripped(o.stderr)

\* Mutant of Success: the expectation is ignored.
SuccessIgnoresExpectation(tc, o) == o.returncode = 0

\* Mutant of Success: anything on stderr counts as a failure of the tool.
SuccessReadsStderr(tc, o) ==
    (o.returncode = 0 /\ o.stderr = "") = tc.should_pass

\* run_test, line 58: success = (result.returncode == 0) == should_pass
Success(tc, o) == (o.returncode = 0) = tc.should_pass

\* Mutant of CaughtByExcept: only TimeoutExpired is caught.
CaughtOnlyTimeout(o) == o.kind = "timeout"

\* run_test, line 77: `except Exception` catches TimeoutExpired as well as
\* a spawn failure (OSError); both derive from Exception.
CaughtByExcept(o) == o.kind \in {"timeout", "exception"}

\* Mutant of run_test_except: the exception is compared like a nonzero exit.
run_test_except_as_nonzero(tc, o, p, f) ==
    IF tc.should_pass
    THEN [passed |-> p, failed |-> f + 1, ret |-> FALSE, lines |-> 1,
          propagates |-> FALSE]
    ELSE [passed |-> p + 1, failed |-> f, ret |-> TRUE, lines |-> 1,
          propagates |-> FALSE]

\* Mutant of run_test_except: the exception is reported but not counted.
run_test_except_uncounted(tc, o, p, f) ==
    [passed |-> p, failed |-> f, ret |-> FALSE, lines |-> 1,
     propagates |-> FALSE]

\* run_test, lines 77-80: the except branch.
run_test_except(tc, o, p, f) ==
    [passed |-> p, failed |-> f + 1, ret |-> FALSE, lines |-> 1,
     propagates |-> FALSE]

\* run_test, lines 48-75: the try body once subprocess.run has returned.
run_test_try(tc, o, p, f) ==
    IF Success(tc, o)
    THEN [passed |-> p + 1, failed |-> f, ret |-> TRUE,
          lines |-> PassLines(o), propagates |-> FALSE]
    ELSE [passed |-> p, failed |-> f + 1, ret |-> FALSE,
          lines |-> FailLines(o), propagates |-> FALSE]

\* run_test: the new counters, the return value, the lines printed, and
\* whether an exception leaves the call (one no except clause catches).
run_test(tc, o, p, f) ==
    IF ~RaisesException(o) THEN run_test_try(tc, o, p, f)
    ELSE IF CaughtByExcept(o) THEN run_test_except(tc, o, p, f)
    ELSE [passed |-> p, failed |-> f, ret |-> FALSE, lines |-> 0,
          propagates |-> TRUE]

\* summary: True iff the failed counter is zero.
summary(p, f) == f = 0

\* Mutant of ExitStatus: the summary's verdict is dropped.
ExitStatusAlwaysZero(success) == 0

\* main, line 279: sys.exit(0 if success else 1)
ExitStatus(success) == IF success THEN 0 ELSE 1

NoCase == [should_pass |-> TRUE, kind |-> "none", returncode |-> 0,
           ret |-> FALSE, dpassed |-> 0, dfailed |-> 0, lines |-> 0]

NoHistory == [processed |-> 0, all_passed |-> TRUE, exception |-> FALSE,
              after_exception |-> 0, timeout |-> FALSE, summarized |-> FALSE]

TInit ==
    /\ tpc = "main"
    /\ cargo_toml \in BOOLEAN
    /\ release_exists \in BOOLEAN
    /\ debug_exists \in BOOLEAN
    /\ parsm_binary = NoBinary
    /\ passed = 0
    /\ failed = 0
    /\ cat = 0
    /\ idx = 0
    /\ texit = -1
    /\ tlast = NoCase
    /\ tseen = NoHistory

\* main, lines 265-267: not launched from the project root.
MainNoCargoStep ==
    /\ tpc = "main"
    /\ UNCHANGED bvars
    /\ ~cargo_toml
    /\ tpc' = "exit"
    /\ texit' = 1
    /\ UNCHANGED <<cargo_toml, release_exists, debug_exists, parsm_binary,
                   passed, failed, cat, idx, tlast, tseen>>

\* _find_parsm_binary, lines 42-44: the build runs when neither path exists.
Builds(release, debug) == ~release /\ ~debug

\* main, lines 272-276: TestRunner() and entry into the first category.  An
\* uncaught CalledProcessError from the build ends the process with status 1.
\* A build that succeeds may or may not leave a binary at the release path
\* (produced); line 44 returns the path without looking.
MainStartStep ==
    /\ tpc = "main"
    /\ UNCHANGED bvars
    /\ cargo_toml
    /\ \E build_ok \in BOOLEAN, produced \in BOOLEAN :
         LET found == find_parsm_binary(release_exists, debug_exists, build_ok)
         IN  /\ release_exists' =
                    IF Builds(release_exists, debug_exists) /\ build_ok
                    THEN produced ELSE release_exists
             /\ IF found.raised
                THEN /\ tpc' = "exit"
                     /\ texit' = 1
                     /\ UNCHANGED <<parsm_binary, cat, idx>>
                ELSE /\ tpc' = "run"
                     /\ parsm_binary' = found.path
                     /\ cat' = 1
                     /\ idx' = 1
                     /\ texit' = texit
    /\ passed' = 0
    /\ failed' = 0
    /\ UNCHANGED <<cargo_toml, debug_exists, tlast, tseen>>

\* Whether a file is at the path run_test spawns (line 49).
BinaryPresent ==
    \/ parsm_binary = ReleasePath /\ release_exists
    \/ parsm_binary = DebugPath /\ debug_exists

\* subprocess.run on a path with no file raises FileNotFoundError.
SpawnOutcomes(present) ==
    IF present THEN TestOutcomes
    ELSE {o \in TestOutcomes : o.kind = "exception"}

\* run_category, lines 87-88: one iteration of the loop, i.e. one run_test.
\* An exception that leaves run_test leaves run_category and main too: the
\* process ends with a traceback and status 1.
RunTestStep(tc, o) ==
    /\ tpc = "run"
    /\ UNCHANGED bvars
    /\ idx <= CasesPerCategory
    /\ o \in SpawnOutcomes(BinaryPresent)
    /\ LET r == run_test(tc, o, passed, failed)
       IN  /\ passed' = r.passed
           /\ failed' = r.failed
           /\ tpc' = IF r.propagates THEN "exit" ELSE tpc
           /\ texit' = IF r.propagates THEN 1 ELSE texit
           /\ idx' = IF r.propagates THEN idx ELSE idx + 1
           /\ tlast' = [should_pass |-> tc.should_pass, kind |-> o.kind,
                        returncode |-> o.returncode, ret |-> r.ret,
                        dpassed |-> r.passed - passed,
                        dfailed |-> r.failed - failed, lines |-> r.lines]
           /\ tseen' = [tseen EXCEPT
                          !.processed = IF r.propagates THEN @ ELSE @ + 1,
                          !.all_passed = @ /\ r.ret,
                          !.exception = @ \/ o.kind = "exception",
                          !.after_exception =
                              IF tseen.exception THEN @ + 1 ELSE @,
                          !.timeout = @ \/ o.kind = "timeout"]
    /\ UNCHANGED <<cargo_toml, release_exists, debug_exists, parsm_binary,
                   cat>>

\* main, lines 275-276: the next category of the dictionary.
RunCategoryStep ==
    /\ tpc = "run"
    /\ UNCHANGED bvars
    /\ idx > CasesPerCategory
    /\ cat < NumCategories
    /\ cat' = cat + 1
    /\ idx' = 1
    /\ UNCHANGED <<tpc, cargo_toml, release_exists, debug_exists, parsm_binary,
                   passed, failed, texit, tlast, tseen>>

\* main, lines 278-279: summary and exit.
SummaryStep ==
    /\ tpc = "run"
    /\ UNCHANGED bvars
    /\ idx > CasesPerCategory
    /\ cat = NumCategories
    /\ tpc' = "exit"
    /\ texit' = ExitStatus(summary(passed, failed))
    /\ tseen' = [tseen EXCEPT !.summarized = TRUE]
    /\ UNCHANGED <<cargo_toml, release_exists, debug_exists, parsm_binary,
                   passed, failed, cat, idx, tlast>>

\* One conformance run.
MainNoCargo == MainNoCargoStep /\ UNCHANGED wvars
MainStart == MainStartStep /\ UNCHANGED wvars
RunTest ==
    \E tc \in TestCase, o \in TestOutcomes :
        RunTestStep(tc, o) /\ UNCHANGED wvars
RunCategory == RunCategoryStep /\ UNCHANGED wvars
Summary == SummaryStep /\ UNCHANGED wvars

TNext == MainNoCargo \/ MainStart \/ RunTest \/ RunCategory \/ Summary

\* Two conformance runs side by side: the same environment, the same cases
\* and, case by case, invocations that end the same way (the same exit code,
\* both timing out, or both raising) but may print different stdout and
\* stderr.  The first run is the run above; the second keeps its own
\* counters and exit status.
SameEnding(o1, o2) ==
    /\ o1.kind = o2.kind
    /\ o1.returncode = o2.returncode

TwinMainNoCargo ==
    /\ MainNoCargoStep
    /\ texit2' = 1
    /\ UNCHANGED <<passed2, failed2, differed>>

TwinMainStart ==
    /\ MainStartStep
    /\ passed2' = 0
    /\ failed2' = 0
    /\ texit2' = IF tpc' = "exit" THEN 1 ELSE texit2
    /\ UNCHANGED differed

TwinRunTest ==
    \E tc \in TestCase, o1 \in TestOutcomes, o2 \in TestOutcomes :
        /\ SameEnding(o1, o2)
        /\ RunTestStep(tc, o1)
        /\ LET r2 == run_test(tc, o2, passed2, failed2)
           IN  /\ passed2' = r2.passed
               /\ failed2' = r2.failed
               /\ texit2' = IF r2.propagates THEN 1 ELSE texit2
        /\ differed' = (differed \/ o1 # o2)

TwinRunCategory == RunCategoryStep /\ UNCHANGED wvars

TwinSummary ==
    /\ SummaryStep
    /\ texit2' = ExitStatus(summary(passed2, failed2))
    /\ UNCHANGED <<passed2, failed2, differed>>

TwinNext ==
    TwinMainNoCargo \/ TwinMainStart \/ TwinRunTest \/ TwinRunCategory
    \/ TwinSummary

-----------------------------------------------------------------------------
(***************************************************************************)
(* Benchmark executor: values                                              *)
(***************************************************************************)

\* A float: float('inf') or a finite rational num/den in lowest terms.
\* "raise" stands for the exception (statistics.StatisticsError, ValueError)
\* a computation raises in place of a value.
RECURSIVE GCD(_, _)
GCD(a, b) == IF b = 0 THEN a ELSE GCD(b, a % b)

Inf == [tag |-> "inf", num |-> 0, den |-> 1]
StatisticsError == [tag |-> "raise", num |-> 0, den |-> 1]
Fin(n, d) ==
    LET g == IF n = 0 THEN d ELSE GCD(n, d)
    IN  [tag |-> "fin", num |-> n \div g, den |-> d \div g]
Zero == Fin(0, 1)

\* a <= b on floats (never applied to a raised error).
Leq(a, b) ==
    \/ b.tag = "inf"
    \/ a.tag = "fin" /\ b.tag = "fin" /\ a.num * b.den <= b.num * a.den

RECURSIVE SumSeq(_)
SumSeq(s) == IF s = <<>> THEN 0 ELSE Head(s) + SumSeq(Tail(s))

RECURSIVE SumSquares(_)
SumSquares(s) == IF s = <<>> THEN 0 ELSE Head(s) * Head(s) + SumSquares(Tail(s))

\* The least and the greatest element of a non-empty list.
RECURSIVE MinSeq(_)
MinSeq(s) ==
    IF Len(s) = 1 THEN Head(s)
    ELSE LET m == MinSeq(Tail(s)) IN IF Head(s) <= m THEN Head(s) ELSE m

RECURSIVE MaxSeq(_)
MaxSeq(s) ==
    IF Len(s) = 1 THEN Head(s)
    ELSE LET m == MaxSeq(Tail(s)) IN IF Head(s) >= m THEN Head(s) ELSE m

\* min(times) and max(times): ValueError on an empty list.
min_of(times) ==
    IF times = <<>> THEN StatisticsError ELSE Fin(MinSeq(times), 1)
max_of(times) ==
    IF times = <<>> THEN StatisticsError ELSE Fin(MaxSeq(times), 1)

\* statistics.mean: the exact mean; StatisticsError on no data.
mean(times) ==
    IF times = <<>> THEN StatisticsError
    ELSE Fin(SumSeq(times), Len(times))

\* statistics.stdev: the sample standard deviation; StatisticsError on fewer
\* than two data points.  The value is carried by its square, the sample
\* variance (n*sum(x^2) - sum(x)^2) / (n*(n-1)): it is zero, or smaller than
\* another, exactly when the standard deviation is.
stdev(times) ==
    LET n == Len(times)
    IN  IF n < 2 THEN StatisticsError
        ELSE Fin(n * SumSquares(times) - SumSeq(times) * SumSeq(times),
                 n * (n - 1))

(***************************************************************************)
(* Benchmark executor: run_parsm                                           *)
(***************************************************************************)

\* What one run_parsm call meets: the child exits with a code after an
\* elapsed time ("exit"), subprocess.run raises TimeoutExpired ("timeout"),
\* open() or the spawn raises OSError ("spawn_error"), or writing the
\* payload into the temporary file raises ("write_error").
BenchExitCodes == {0, 1}
BenchOutcomes ==
    [kind : {"exit"}, returncode : BenchExitCodes, elapsed : 1..MaxTime]
    \cup [kind : {"timeout", "spawn_error", "write_error"},
          returncode : {0}, elapsed : {0}]

\* run_parsm, lines 164-168: the temporary file is created and written
\* before the try statement is entered.
EntersTry(o) == o.kind # "write_error"

\* run_parsm, lines 185-186: `except subprocess.TimeoutExpired` only.
CaughtTimeout(o) == o.kind = "timeout"

\* run_parsm, lines 187-188: os.unlink runs in the finally clause, so only
\* once the try statement was entered; delete=False leaves the file behind
\* otherwise.
Unlinked(o) == EntersTry(o)

\* run_parsm: the returned pair, or the exception that leaves the call, and
\* what happened to the temporary file and the child.
run_parsm(o) ==
    [raised |-> o.kind # "exit" /\ ~CaughtTimeout(o),
     exec_time |-> IF o.kind = "exit" THEN Fin(o.elapsed, 1) ELSE Inf,
     success |-> o.kind = "exit" /\ o.returncode = 0,
     created |-> 1,
     leaked |-> IF Unlinked(o) THEN 0 ELSE 1,
     spawned |-> IF o.kind \in {"exit", "timeout"} THEN 1 ELSE 0]

(***************************************************************************)
(* Benchmark executor: benchmark_operation                                 *)
(***************************************************************************)

\* benchmark_operation, line 191: iterations: int = 5; main, line 428:
\* default=5 of --iterations.
DefaultIterations == 5

\* run_all_benchmarks, line 348: iterations=3 for the large datasets.
LargeIterations == 3

\* The benchmark_operation calls of run_all_benchmarks in the order it makes
\* them, for the first operation of each format's catalog (lines 290-292,
\* 334-335) and the first large-dataset scenario (lines 339-348).
AllBenchmarks ==
    << [operation |-> "field_selection_small", format |-> "json", size |-> "small"],
       [operation |-> "field_selection_medium", format |-> "json", size |-> "medium"],
       [operation |-> "field_selection_small", format |-> "csv", size |-> "small"],
       [operation |-> "field_selection_medium", format |-> "csv", size |-> "medium"],
       [operation |-> "field_selection_large", format |-> "json", size |-> "large"] >>

Plan == SubSeq(AllBenchmarks, 1, NumBench)

\* benchmark_operation, lines 193-194: the locals at entry.
NewCall(b, n) ==
    [operation |-> b.operation, format |-> b.format, size |-> b.size,
     iterations |-> n, i |-> 0, times |-> <<>>, successful_runs |-> 0,
     fail_lines |-> 0, spawns |-> 0]

NoCall == NewCall([operation |-> "", format |-> "", size |-> ""], 0)

\* Mutant of Counts: every finite time counts, the exit code is not looked at.
CountsFiniteTime(r) == r.exec_time # Inf

\* benchmark_operation, line 200: a repetition counts when it succeeded and
\* its time is not the timeout's infinity.
Counts(r) == r.success /\ r.exec_time # Inf

\* Mutant of Repeat: a failed repetition is run again.
RepeatRetrying(c, r) ==
    IF r.success /\ r.exec_time # Inf
    THEN [c EXCEPT !.i = @ + 1,
                   !.times = Append(@, r.exec_time.num),
                   !.successful_runs = @ + 1,
                   !.spawns = @ + r.spawned]
    ELSE [c EXCEPT !.fail_lines = @ + 1,
                   !.spawns = @ + r.spawned]

\* benchmark_operation, lines 199-204: one iteration of the loop, given what
\* run_parsm returned.
Repeat(c, r) ==
    IF Counts(r)
    THEN [c EXCEPT !.i = @ + 1,
                   !.times = Append(@, r.exec_time.num),
                   !.successful_runs = @ + 1,
                   !.spawns = @ + r.spawned]
    ELSE [c EXCEPT !.i = @ + 1,
                   !.fail_lines = @ + 1,
                   !.spawns = @ + r.spawned]

\* benchmark_operation, lines 206-217: all runs failed.
FailedResult(c) ==
    [operation |-> c.operation, format |-> c.format, size |-> c.size,
     avg_time |-> Inf, min_time |-> Inf, max_time |-> Inf, std_dev |-> Inf,
     iterations |-> 0]

\* Mutant of StdDevOf: the single-sample guard is missing.
StdDevUnguarded(times) == stdev(times)

\* benchmark_operation, line 226.
StdDevOf(times) == IF Len(times) > 1 THEN stdev(times) ELSE Zero

\* benchmark_operation, lines 219-228.
StatResult(c) ==
    [operation |-> c.operation, format |-> c.format, size |-> c.size,
     avg_time |-> mean(c.times),
     min_time |-> min_of(c.times),
     max_time |-> max_of(c.times),
     std_dev |-> StdDevOf(c.times),
     iterations |-> c.successful_runs]

\* benchmark_operation, line 206: `if not times`.
NoTimes(c) == c.times = <<>>

\* Mutant of Finish: the all-failed result is appended like any other.
FinishAppendingFailed(c, rs) ==
    IF NoTimes(c)
    THEN [raised |-> FALSE, result |-> FailedResult(c),
          results |-> Append(rs, FailedResult(c))]
    ELSE LET r == StatResult(c)
         IN  IF "raise" \in {r.avg_time.tag, r.min_time.tag, r.max_time.tag,
                            r.std_dev.tag}
             THEN [raised |-> TRUE, result |-> r, results |-> rs]
             ELSE [raised |-> FALSE, result |-> r, results |-> Append(rs, r)]

\* benchmark_operation, lines 206-231: what the call returns, whether its
\* statistics raised, and the results collection it leaves.
Finish(c, rs) ==
    IF NoTimes(c)
    THEN [raised |-> FALSE, result |-> FailedResult(c), results |-> rs]
    ELSE LET r == StatResult(c)
         IN  IF "raise" \in {r.avg_time.tag, r.min_time.tag, r.max_time.tag,
                            r.std_dev.tag}
             THEN [raised |-> TRUE, result |-> r, results |-> rs]
             ELSE [raised |-> FALSE, result |-> r, results |-> Append(rs, r)]

(***************************************************************************)
(* Report and export                                                       *)
(***************************************************************************)

\* Python's str order on the labels the benchmarks use.
LexOrder ==
    << "field_selection_large", "field_selection_medium",
       "field_selection_small", "large", "medium", "small" >>
Rank(s) == CHOOSE k \in 1..Len(LexOrder) : LexOrder[k] = s

\* print_results, line 385: key=lambda x: (x.size, x.operation).
KeyLess(a, b) ==
    \/ Rank(a.size) < Rank(b.size)
    \/ a.size = b.size /\ Rank(a.operation) < Rank(b.operation)

\* sorted(): a stable sort, here by insertion from the left.
RECURSIVE Insert(_, _)
Insert(s, r) ==
    IF s = <<>> THEN <<r>>
    ELSE IF KeyLess(r, Head(s)) THEN <<r>> \o s
    ELSE <<Head(s)>> \o Insert(Tail(s), r)

\* Mutant of sorted: the rows are left in list order.
unsorted(s) == s

RECURSIVE sorted(_)
sorted(s) ==
    IF s = <<>> THEN <<>>
    ELSE Insert(sorted(SubSeq(s, 1, Len(s) - 1)), s[Len(s)])

\* print_results, lines 373-377: the formats in order of first appearance.
RECURSIVE FormatsOf(_)
FormatsOf(rs) ==
    IF rs = <<>> THEN <<>>
    ELSE LET before == FormatsOf(SubSeq(rs, 1, Len(rs) - 1))
             f == rs[Len(rs)].format
         IN  IF \E k \in 1..Len(before) : before[k] = f
             THEN before ELSE Append(before, f)

OfFormat(rs, f) == SelectSeq(rs, LAMBDA r : r.format = f)

\* One printed or exported row: its labels, whether it shows the FAILED
\* marker (lines 386, 407) and the run count.
Row(r) ==
    [operation |-> r.operation, format |-> r.format, size |-> r.size,
     failed |-> r.avg_time = Inf, runs |-> r.iterations]

RowsOf(rs) == [k \in 1..Len(rs) |-> Row(rs[k])]

\* print_results: one group per format, its rows sorted.
print_results(rs) ==
    LET fs == FormatsOf(rs)
    IN  [k \in 1..Len(fs) |->
            [format |-> fs[k], rows |-> RowsOf(sorted(OfFormat(rs, fs[k])))]]

\* export_csv_results, lines 406-414: one row per result, in list order.
export_csv_results(rs) == RowsOf(rs)

(***************************************************************************)
(* Benchmark executor: main                                                *)
(***************************************************************************)

BInit ==
    /\ bpc = "main"
    /\ binary_exists \in BOOLEAN
    /\ export_csv \in BOOLEAN
    /\ iterations_arg = DefaultIterations
    /\ results = <<>>
    /\ bnum = 0
    /\ cur = NoCall
    /\ rlog = <<>>
    /\ returned = <<>>
    /\ completed = 0
    /\ temp_files = 0
    /\ temp_created = 0
    /\ calls = 0
    /\ table = <<>>
    /\ csv_rows = <<>>
    /\ bexit = -1
    /\ bseen = "none"

\* main, lines 433-434 and 441-445: ParmsBenchmark(); a missing binary
\* raises FileNotFoundError and main returns 1.
BenchMain ==
    /\ bpc = "main"
    /\ UNCHANGED <<tvars, wvars>>
    /\ IF binary_exists
       THEN /\ bpc' = "idle"
            /\ bnum' = 1
            /\ UNCHANGED <<bexit, bseen>>
       ELSE /\ bpc' = "exit"
            /\ bexit' = 1
            /\ bseen' = "no_binary"
            /\ bnum' = bnum
    /\ results' = <<>>
    /\ UNCHANGED <<binary_exists, export_csv, iterations_arg, cur, rlog, returned, completed,
                   temp_files, temp_created, calls, table, csv_rows>>

\* benchmark_operation is entered for the next benchmark of the plan with
\* repetition count n.
StartCall(n) ==
    /\ bpc = "idle"
    /\ UNCHANGED <<tvars, wvars>>
    /\ bnum <= NumBench
    /\ cur' = NewCall(Plan[bnum], n)
    /\ rlog' = <<>>
    /\ returned' = <<>>
    /\ temp_created' = 0
    /\ calls' = 0
    /\ bpc' = "loop"
    /\ UNCHANGED <<binary_exists, export_csv, iterations_arg, results, bnum, completed,
                   temp_files, table, csv_rows, bexit, bseen>>

\* benchmark_operation, lines 198-204: one repetition, i.e. one run_parsm
\* call.  An exception that leaves run_parsm leaves benchmark_operation and
\* run_all_benchmarks and reaches main's `except Exception` (lines 449-451).
Repetition ==
    /\ bpc = "loop"
    /\ UNCHANGED <<tvars, wvars>>
    /\ cur.i < cur.iterations
    /\ \E o \in BenchOutcomes :
         LET r == run_parsm(o)
         IN  /\ rlog' = Append(rlog, o)
             /\ calls' = calls + 1
             /\ temp_created' = temp_created + r.created
             /\ temp_files' = temp_files + r.leaked
             /\ IF r.raised
                THEN /\ bpc' = "exit"
                     /\ bexit' = 1
                     /\ bseen' = o.kind
                     /\ cur' = [cur EXCEPT !.spawns = @ + r.spawned]
                ELSE /\ cur' = Repeat(cur, r)
                     /\ UNCHANGED <<bpc, bexit, bseen>>
    /\ UNCHANGED <<binary_exists, export_csv, iterations_arg, results, bnum, returned,
                   completed, table, csv_rows>>

\* benchmark_operation, lines 206-231: after the loop.
BenchFinish ==
    /\ bpc = "loop"
    /\ UNCHANGED <<tvars, wvars>>
    /\ cur.i = cur.iterations
    /\ LET f == Finish(cur, results)
       IN  IF f.raised
           THEN /\ bpc' = "exit"
                /\ bexit' = 1
                /\ bseen' = "statistics"
                /\ UNCHANGED <<results, returned, completed, bnum>>
           ELSE /\ results' = f.results
                /\ returned' = <<f.result>>
                /\ completed' = completed + 1
                /\ bnum' = bnum + 1
                /\ bpc' = "idle"
                /\ UNCHANGED <<bexit, bseen>>
    /\ UNCHANGED <<binary_exists, export_csv, iterations_arg, cur, rlog, temp_files,
                   temp_created, calls, table, csv_rows>>

\* main, lines 436-439 and 453: print_results, then the export or return 0.
PrintResults ==
    /\ bpc = "idle"
    /\ UNCHANGED <<tvars, wvars>>
    /\ bnum > NumBench
    /\ table' = <<print_results(results)>>
    /\ IF export_csv
       THEN /\ bpc' = "export"
            /\ bexit' = bexit
       ELSE /\ bpc' = "exit"
            /\ bexit' = 0
    /\ UNCHANGED <<binary_exists, export_csv, iterations_arg, results, bnum, cur, rlog,
                   returned, completed, temp_files, temp_created, calls,
                   csv_rows, bseen>>

\* main, lines 438-439: export_csv_results; open() may raise, which main's
\* `except Exception` turns into return 1.
ExportCsv ==
    /\ bpc = "export"
    /\ UNCHANGED <<tvars, wvars>>
    /\ \E opened \in BOOLEAN :
         IF opened
         THEN /\ csv_rows' = export_csv_results(results)
              /\ bexit' = 0
              /\ bseen' = bseen
         ELSE /\ csv_rows' = csv_rows
              /\ bexit' = 1
              /\ bseen' = "export"
    /\ bpc' = "exit"
    /\ UNCHANGED <<binary_exists, export_csv, iterations_arg, results, bnum, cur, rlog,
                   returned, completed, temp_files, temp_created, calls, table>>

\* benchmark_operation as a function of its repetition count: any count up
\* to MaxIter.
BenchStart == \E n \in 1..MaxIter : StartCall(n)

\* The repetition count the call sites of run_format_benchmarks (lines
\* 291-292: none, so the default of line 191) and of run_all_benchmarks
\* (line 348) pass for benchmark b; args.iterations is not passed on.
IterationsPassed(b, override) ==
    IF b.size = "large" THEN LargeIterations ELSE DefaultIterations

\* benchmark_operation as run_all_benchmarks calls it.
BenchStartFromMain == StartCall(IterationsPassed(Plan[bnum], iterations_arg))

BNext ==
    BenchMain \/ BenchStart \/ Repetition \/ BenchFinish \/ PrintResults
    \/ ExportCsv

\* The conformance run with the benchmark run not started, and conversely.
WInit == passed2 = 0 /\ failed2 = 0 /\ texit2 = -1 /\ differed = FALSE

TIdle ==
    /\ tpc = "exit" /\ cargo_toml = FALSE /\ release_exists = FALSE
    /\ debug_exists = FALSE /\ parsm_binary = NoBinary /\ passed = 0
    /\ failed = 0 /\ cat = 0 /\ idx = 0 /\ texit = -1 /\ tlast = NoCase
    /\ tseen = NoHistory
    /\ WInit

BIdle ==
    /\ bpc = "exit" /\ binary_exists = FALSE /\ export_csv = FALSE
    /\ iterations_arg = DefaultIterations
    /\ results = <<>> /\ bnum = 0 /\ cur = NoCall /\ rlog = <<>>
    /\ returned = <<>> /\ completed = 0 /\ temp_files = 0 /\ temp_created = 0
    /\ calls = 0 /\ table = <<>> /\ csv_rows = <<>> /\ bexit = -1
    /\ bseen = "none"

InitConformance == TInit /\ BIdle /\ WInit
InitBenchmark == BInit /\ TIdle

SpecConformance == InitConformance /\ [][TNext]_vars
SpecBenchmark == InitBenchmark /\ [][BNext]_vars
SpecTwoRuns == InitConformance /\ [][TwinNext]_vars

\* The benchmark run as main() drives it: --iterations is given a value or
\* left at its default, and every benchmark_operation call gets the
\* repetition count its call site passes.
InitBenchmarkRun ==
    /\ bpc = "main"
    /\ binary_exists \in BOOLEAN
    /\ export_csv \in BOOLEAN
    /\ iterations_arg \in (1..MaxIter) \cup {DefaultIterations}
    /\ results = <<>> /\ bnum = 0 /\ cur = NoCall /\ rlog = <<>>
    /\ returned = <<>> /\ completed = 0 /\ temp_files = 0 /\ temp_created = 0
    /\ calls = 0 /\ table = <<>> /\ csv_rows = <<>> /\ bexit = -1
    /\ bseen = "none"
    /\ TIdle

BRunNext ==
    BenchMain \/ BenchStartFromMain \/ Repetition \/ BenchFinish
    \/ PrintResults \/ ExportCsv

SpecBenchmarkRun == InitBenchmarkRun /\ [][BRunNext]_vars

\* print_results and export_csv_results as functions of the collection they
\* are given: every collection run_all_benchmarks can have accumulated, i.e.
\* for each benchmark of AllBenchmarks in order either no result (all its
\* runs failed) or the result of k successful runs.
SuccessfulCall(b, k) ==
    [NewCall(b, k) EXCEPT !.i = k, !.times = [j \in 1..k |-> 1],
                          !.successful_runs = k, !.spawns = k]

RECURSIVE Accumulated(_, _)
Accumulated(runs, n) ==
    IF n = 0 THEN <<>>
    ELSE LET before == Accumulated(runs, n - 1)
         IN  IF runs[n] = 0 THEN before
             ELSE Finish(SuccessfulCall(AllBenchmarks[n], runs[n]), before).results

InitReport ==
    /\ bpc = "idle"
    /\ binary_exists = TRUE
    /\ export_csv \in BOOLEAN
    /\ iterations_arg = DefaultIterations
    /\ \E runs \in [1..Len(AllBenchmarks) -> 0..MaxIter] :
          results = Accumulated(runs, Len(AllBenchmarks))
    /\ bnum = NumBench + 1
    /\ cur = NoCall /\ rlog = <<>> /\ returned = <<>> /\ completed = 0
    /\ temp_files = 0 /\ temp_created = 0 /\ calls = 0 /\ table = <<>>
    /\ csv_rows = <<>> /\ bexit = -1 /\ bseen = "none"
    /\ TIdle

ReportNext == PrintResults \/ ExportCsv

SpecReport == InitReport /\ [][ReportNext]_vars

-----------------------------------------------------------------------------
(***************************************************************************)
(* Properties of the conformance run (checked under SpecConformance)       *)
(***************************************************************************)

TotalCases == NumCategories * CasesPerCategory

\* C1: when the invocation ends with an exit code, run_test judges the case
\* passed (returns True and counts it in passed, not in failed) exactly when
\* (exit code = 0) = should_pass: a case expected to succeed passes exactly on
\* exit code 0, a case expected to fail passes exactly on a nonzero exit code.
C1_ExitCodeVerdict ==
    tlast.kind = "exit" =>
        /\ tlast.should_pass => (tlast.ret <=> tlast.returncode = 0)
        /\ ~tlast.should_pass => (tlast.ret <=> tlast.returncode # 0)
        /\ tlast.ret => tlast.dpassed = 1 /\ tlast.dfailed = 0
        /\ ~tlast.ret => tlast.dpassed = 0 /\ tlast.dfailed = 1

C1_Witness ==
    /\ tlast.kind = "exit"
    /\ ~tlast.should_pass
    /\ tlast.returncode # 0
    /\ tlast.ret
    /\ passed > 0
    /\ failed > 0

\* C2: once all categories have run and the summary is made, the exit status
\* is 0 if every case run was judged passed (equivalently, the failed counter
\* is zero) and 1 otherwise, and every declared case has been run.
C2_ExitStatus ==
    tseen.summarized =>
        /\ tpc = "exit"
        /\ texit \in {0, 1}
        /\ texit = 0 <=> tseen.all_passed
        /\ texit = 0 <=> failed = 0
        /\ tseen.processed = TotalCases

C2_Witness ==
    /\ tseen.summarized
    /\ texit = 1
    /\ failed = 1
    /\ tseen.timeout
    /\ ~tseen.exception

\* C3 as stated: a timeout stands for a nonzero exit code in the comparison,
\* so the case fails when should_pass is true and passes when it is false.
C3_TimeoutAsNonzeroExit ==
    tlast.kind = "timeout" => (tlast.ret <=> ~tlast.should_pass)

\* C3 as amended: a case whose invocation times out is judged failed whatever
\* should_pass is; it counts once in failed and not in passed.
C3_TimeoutFails ==
    tlast.kind = "timeout" =>
        /\ ~tlast.ret
        /\ tlast.dfailed = 1
        /\ tlast.dpassed = 0

C3_Witness ==
    /\ tlast.kind = "timeout"
    /\ ~tlast.should_pass
    /\ ~tlast.ret
    /\ tpc = "run"

\* C4: an exception raised while invoking the tool makes the case failed
\* whatever should_pass is, counts once in failed and not in passed, and does
\* not end the run: the run still ends with the summary, after every case of
\* every category was run.
C4_ExceptionContained ==
    /\ tlast.kind = "exception" =>
           /\ ~tlast.ret
           /\ tlast.dfailed = 1
           /\ tlast.dpassed = 0
    /\ (tseen.exception /\ tpc = "exit") =>
           /\ tseen.summarized
           /\ tseen.processed = TotalCases

C4_Witness ==
    /\ tseen.summarized
    /\ tseen.exception
    /\ tseen.after_exception = TotalCases - 1
    /\ passed = TotalCases - 1
    /\ failed = 1

\* C12 as stated, for the conformance run: when no binary is at the resolved
\* path, the run ends with exit status 1 before any case is run and before
\* any per-case report is printed.
C12_MissingBinaryIsSetupError ==
    (tpc # "main" /\ ~BinaryPresent) =>
        /\ tpc = "exit"
        /\ texit = 1
        /\ tseen.processed = 0
        /\ tlast.kind = "none"

\* C15: every run_test call adds exactly 1 to exactly one of passed and
\* failed, whether the case passed, failed, timed out or raised; so at every
\* point of the run passed + failed is the number of cases processed so far,
\* which is the position of the run in the declared cases, and at the summary
\* it is the number of declared cases.
C15_TallyCountsEachCase ==
    /\ tlast.kind # "none" =>
           /\ tlast.dpassed \in {0, 1}
           /\ tlast.dfailed \in {0, 1}
           /\ tlast.dpassed + tlast.dfailed = 1
    /\ passed + failed = tseen.processed
    /\ tpc = "run" =>
           tseen.processed = (cat - 1) * CasesPerCategory + (idx - 1)
    /\ tseen.summarized => passed + failed = TotalCases

C15_Witness ==
    /\ tseen.summarized
    /\ tseen.timeout
    /\ tseen.exception
    /\ tlast.kind = "exit"
    /\ ~tlast.ret
    /\ passed = 1
    /\ failed = TotalCases - 1

\* C14 (checked under SpecTwoRuns): two runs over the same cases whose
\* invocations end the same way and differ only in what the tool prints have
\* the same passed counter, the same failed counter and the same exit status,
\* at every point of the run.
C14_OutputIndependent ==
    /\ passed = passed2
    /\ failed = failed2
    /\ texit = texit2

C14_Witness ==
    /\ tseen.summarized
    /\ differed
    /\ passed > 0
    /\ failed > 0
    /\ texit = 1
    /\ texit2 = 1

(***************************************************************************)
(* Properties of the benchmark run (checked under SpecBenchmark)           *)
(***************************************************************************)

\* The repetitions of the last call that exited with code 0 in time.
IsOk(o) == o.kind = "exit" /\ o.returncode = 0
OkRuns == SelectSeq(rlog, IsOk)

RECURSIVE TotalElapsed(_)
TotalElapsed(log) ==
    IF log = <<>> THEN 0 ELSE Head(log).elapsed + TotalElapsed(Tail(log))

\* C5: a returned result with iterations = 0 has the infinity sentinel in
\* avg, min, max and std_dev, one with iterations = 1 has std_dev = 0, and no
\* run ends with an exception raised by the statistics.
C5_SentinelAndSingleRun ==
    /\ bseen # "statistics"
    /\ returned # <<>> =>
         LET r == returned[1]
         IN  /\ r.iterations = 0 =>
                   /\ r.avg_time = Inf
                   /\ r.min_time = Inf
                   /\ r.max_time = Inf
                   /\ r.std_dev = Inf
             /\ r.iterations = 1 => r.std_dev = Zero

C5_Witness ==
    /\ returned # <<>>
    /\ returned[1].iterations = 1
    /\ returned[1].std_dev = Zero
    /\ Len(rlog) = 2

\* C6: the returned result's iterations is the number of repetitions that
\* exited with code 0 without timing out; avg, min and max are the mean, the
\* least and the greatest of the elapsed times of exactly those repetitions,
\* and min <= avg <= max.
C6_StatisticsOverSuccessfulRuns ==
    returned # <<>> =>
        LET r == returned[1]
            n == Len(OkRuns)
        IN  /\ r.iterations = n
            /\ n > 0 =>
                 /\ r.avg_time.tag = "fin"
                 /\ r.avg_time.num * n = TotalElapsed(OkRuns) * r.avg_time.den
                 /\ \E k \in 1..n : r.min_time = Fin(OkRuns[k].elapsed, 1)
                 /\ \A k \in 1..n : Leq(r.min_time, Fin(OkRuns[k].elapsed, 1))
                 /\ \E k \in 1..n : r.max_time = Fin(OkRuns[k].elapsed, 1)
                 /\ \A k \in 1..n : Leq(Fin(OkRuns[k].elapsed, 1), r.max_time)
            /\ Leq(r.min_time, r.avg_time)
            /\ Leq(r.avg_time, r.max_time)

C6_Witness ==
    /\ returned # <<>>
    /\ returned[1].iterations = 1
    /\ \E k \in 1..Len(rlog) :
          /\ rlog[k].kind = "exit"
          /\ rlog[k].returncode # 0
          /\ Fin(rlog[k].elapsed, 1) # returned[1].avg_time

\* C7 as stated: every benchmark_operation call that returns has appended the
\* result it returns to the end of results, so results holds one result per
\* completed call, also when no repetition succeeded.
C7_EveryCallAppends ==
    /\ Len(results) = completed
    /\ returned # <<>> =>
         /\ results # <<>>
         /\ results[Len(results)] = returned[1]

\* C8: a repetition that times out or exits nonzero is reported as failed
\* once and not run again, and the later repetitions still run: a call that
\* returns has spawned the tool exactly `iterations` times, one per
\* repetition.
C8_ExactlyNInvocations ==
    /\ (bpc = "loop" /\ bseen = "none") =>
          /\ Len(rlog) = cur.i
          /\ cur.spawns = cur.i
          /\ cur.i <= cur.iterations
    /\ returned # <<>> =>
          /\ Len(rlog) = cur.iterations
          /\ cur.spawns = cur.iterations
          /\ cur.fail_lines = cur.iterations - Len(OkRuns)

C8_Witness ==
    /\ returned # <<>>
    /\ Len(rlog) >= 2
    /\ rlog[1].kind = "timeout"
    /\ rlog[2].kind = "exit"
    /\ rlog[2].returncode # 0
    /\ cur.spawns = cur.iterations

\* C9 as stated: a spawn failure in one repetition is contained: the run goes
\* on through every benchmark and ends with the results table printed.
C9_SpawnFailureContained ==
    (bpc = "exit" /\ \E k \in 1..Len(rlog) : rlog[k].kind = "spawn_error") =>
        /\ table # <<>>
        /\ completed = NumBench

\* C10 as stated: every run_parsm call creates exactly one temporary file and
\* has removed it when the call ends, on every exit path: between two calls
\* no temporary file exists (temp_created and calls count within one
\* benchmark_operation call).
C10_TempFileRemoved ==
    /\ temp_created = calls
    /\ temp_files = 0

(***************************************************************************)
(* Properties of the benchmark run as main() drives it (checked under      *)
(* SpecBenchmarkRun)                                                       *)
(***************************************************************************)

\* C16: every result in the results collection has finite avg, min, max and
\* std_dev and a successful-run count of at least 1; the count is at most the
\* repetition count of the call that appended it (checked when the call
\* returns; results are never changed afterwards); and the collection holds
\* one result per call that returned with a successful repetition, so a
\* result carrying the infinity sentinel is returned but never stored.
IsFinite(x) == x.tag = "fin"

C16_OnlyFiniteResultsKept ==
    /\ \A k \in 1..Len(results) :
          /\ results[k].iterations >= 1
          /\ results[k].iterations <= MaxIter
          /\ IsFinite(results[k].avg_time)
          /\ IsFinite(results[k].min_time)
          /\ IsFinite(results[k].max_time)
          /\ IsFinite(results[k].std_dev)
    /\ Len(results) <= completed
    /\ returned # <<>> =>
          IF returned[1].iterations = 0
          THEN (results = <<>> \/ results[Len(results)] # returned[1])
          ELSE /\ results # <<>>
               /\ results[Len(results)] = returned[1]
               /\ returned[1].iterations <= cur.iterations

C16_Witness ==
    /\ returned # <<>>
    /\ returned[1].avg_time = Inf
    /\ Len(results) = 1
    /\ completed = 2
    /\ results[1].iterations = MaxIter

\* C11 as stated: every small-dataset and medium-dataset benchmark that
\* returns has invoked the tool exactly args.iterations times: the override
\* when one was given, 5 when none was.
C11_OverrideHonoured ==
    (returned # <<>> /\ cur.size \in {"small", "medium"}) =>
        cur.spawns = iterations_arg

(***************************************************************************)
(* Properties of the report (checked under SpecReport)                     *)
(***************************************************************************)

RECURSIVE Flatten(_)
Flatten(groups) ==
    IF groups = <<>> THEN <<>>
    ELSE Head(groups).rows \o Flatten(Tail(groups))

Occurrences(rows, x) == Cardinality({k \in 1..Len(rows) : rows[k] = x})

SameRows(a, b) ==
    /\ Len(a) = Len(b)
    /\ \A k \in 1..Len(a) : Occurrences(a, a[k]) = Occurrences(b, a[k])

\* (size, operation) of row a is not after that of row b in str order.
NotAfter(a, b) ==
    \/ Rank(a.size) < Rank(b.size)
    \/ Rank(a.size) = Rank(b.size) /\ Rank(a.operation) <= Rank(b.operation)

=============================================================================
